---------------------------- MODULE Spec2Model ----------------------------
(***************************************************************************)
(* Masking / unmasking pipeline of science-pdf-translator.                 *)
(*                                                                         *)
(* Text is a sequence of characters (one-character strings; "SOH" stands   *)
(* for the control character \x01, "BACKTICK" for the grave accent).       *)
(* A parsed node is a record                                               *)
(*   [kind, verbatim, name, nargs, d0, d1]                                 *)
(* kind     : "Chars" | "Math" | "Macro" | "Environment" | "Group" |       *)
(*            "Specials" | "Comment"   (the pylatexenc node classes)       *)
(* verbatim : latex_verbatim() (chars of a Chars node, specials_chars of a *)
(*            Specials node)                                               *)
(* name     : macroname / environmentname                                  *)
(* nargs    : len(node.nodeargs)                                           *)
(* d0, d1   : node.delimiters                                              *)
(* The parser itself is external: node lists are inputs.                   *)
(***************************************************************************)
EXTENDS Integers, Sequences, FiniteSets, TLC

VARIABLES
    pc,            \* position of the run
    nodelist,      \* the parsed node list
    idx,           \* loop index of the running loop
    masked_text,   \* mask_codes: masked_text
    mask_dict,     \* mask_codes: mask_dict, in insertion order, <<mask, node>>
    mask_count,    \* mask_codes: its local mask_count
    g_mask_count,  \* utils.to_scrapbox: the module-level mask_count
    n2m_log,       \* the tuples node2mask returned, in call order
    ref_text,      \* ReferenceMasker.ref_text / main's ref_text
    text,          \* the text being worked on (translated_text)
    output,        \* main: output
    input,         \* the text an operation started from
    via,           \* which path the run takes
    parts,         \* the pieces the text of a ReferenceMasker run was built from
    status,        \* main: the status code of the translation response
    args,          \* main: the command line flags
    files,         \* main: the dump files written, in order
    console,       \* main: what was printed, in order
    clipboard,     \* main: what was handed to clip.exe
    requests       \* main: the payload texts POSTed to the translation API

vars == <<pc, nodelist, idx, masked_text, mask_dict, mask_count, g_mask_count,
          n2m_log, ref_text, text, output, input, via, parts, status, args,
          files, console, clipboard, requests>>

-----------------------------------------------------------------------------
(* Bounds of the model *)

\* longest node list handed to the maskers
MaxNodes == 3

\* longest translated text handed to unmask_codes alone, in pieces
MaxPieces == 2

\* largest mask table handed to unmask_codes alone
MaxEntries == 2

-----------------------------------------------------------------------------
(* Characters and strings *)

\* Python's None where a position is expected (no position is negative)
None == -1

\* Python's None where a mask pair is expected
NoPair == <<>>

Upper == <<"A","B","C","D","E","F","G","H","I","J","K","L","M",
           "N","O","P","Q","R","S","T","U","V","W","X","Y","Z">>

LowerSeq == <<"a","b","c","d","e","f","g","h","i","j","k","l","m",
              "n","o","p","q","r","s","t","u","v","w","x","y","z">>

LowerOf == [c \in {Upper[k] : k \in 1..26} |->
               LowerSeq[CHOOSE k \in 1..26 : Upper[k] = c]]

Lower(c) == IF c \in DOMAIN LowerOf THEN LowerOf[c] ELSE c

IsLetter(c) == c \in DOMAIN LowerOf \/ c \in {LowerSeq[k] : k \in 1..26}

DigitChar == <<"0","1","2","3","4","5","6","7","8","9">>

IsDigit(c) == c \in {DigitChar[k] : k \in 1..10}

BS == "\\"

NL == "\n"

SOH == "SOH"

TICK == "BACKTICK"

\* re.IGNORECASE comparison of a text character with a pattern character
CharEq(a, b, ci) == IF ci THEN Lower(a) = Lower(b) ELSE a = b

\* the literal pattern pat matches text at position p
MatchLit(txt, p, pat, ci) ==
    /\ p + Len(pat) - 1 <= Len(txt)
    /\ \A k \in 1..Len(pat) : CharEq(txt[p + k - 1], pat[k], ci)

\* pat in txt
Contains(txt, pat) == \E p \in 1..(Len(txt) + 1) : MatchLit(txt, p, pat, FALSE)

ContainsCI(txt, pat) == \E p \in 1..(Len(txt) + 1) : MatchLit(txt, p, pat, TRUE)

\* position of the leftmost occurrence of pat in txt at or after p, or None
NextMatch(txt, pat, p, ci) ==
    LET found == {q \in p..Len(txt) : MatchLit(txt, q, pat, ci)}
    IN  IF found = {} THEN None
        ELSE CHOOSE q \in found : \A r \in found : q <= r

\* number of non-overlapping leftmost occurrences of pat in txt from p on
RECURSIVE CountFrom(_, _, _, _)
CountFrom(txt, pat, p, ci) ==
    LET q == NextMatch(txt, pat, p, ci)
    IN  IF q = None THEN 0
        ELSE 1 + CountFrom(txt, pat, q + Len(pat), ci)

\* every non-overlapping leftmost occurrence of the literal pat replaced by rep
RECURSIVE SubFrom(_, _, _, _, _)
SubFrom(pat, rep, txt, p, ci) ==
    LET q == NextMatch(txt, pat, p, ci)
    IN  IF q = None THEN SubSeq(txt, p, Len(txt))
        ELSE SubSeq(txt, p, q - 1) \o rep
                 \o SubFrom(pat, rep, txt, q + Len(pat), ci)

\* str.replace(old, new)
str_replace(txt, old, new) == SubFrom(old, new, txt, 1, FALSE)

\* The replacement template of re.sub, expanded as the re module's
\* parse_template does for a pattern without groups: \\ is one backslash, \n
\* a newline, a backslash before another letter or a digit 1-9 or at the end
\* is an error, a backslash before any other character is kept.
RECURSIVE expand_template(_, _)
expand_template(t, p) ==
    IF p > Len(t) THEN [ok |-> TRUE, s |-> <<>>]
    ELSE IF t[p] # BS
         THEN LET r == expand_template(t, p + 1)
              IN  [ok |-> r.ok, s |-> <<t[p]>> \o r.s]
    ELSE IF p = Len(t) THEN [ok |-> FALSE, s |-> <<>>]
    ELSE LET c == t[p + 1]
             r == expand_template(t, p + 2)
         IN  IF c = BS THEN [ok |-> r.ok, s |-> <<BS>> \o r.s]
             ELSE IF c = "n" THEN [ok |-> r.ok, s |-> <<NL>> \o r.s]
             ELSE IF c = "0" THEN [ok |-> r.ok, s |-> <<"NUL">> \o r.s]
             ELSE IF IsLetter(c) \/ IsDigit(c) THEN [ok |-> FALSE, s |-> <<>>]
             ELSE [ok |-> r.ok, s |-> <<BS, c>> \o r.s]

\* re.sub(pattern, repl, string, flags) for a literal pattern:
\* [ok |-> FALSE] when the template is rejected (re.error)
re_sub(pat, repl, txt, ci) ==
    LET e == expand_template(repl, 1)
    IN  IF e.ok THEN [ok |-> TRUE, s |-> SubFrom(pat, e.s, txt, 1, ci)]
        ELSE [ok |-> FALSE, s |-> txt]

-----------------------------------------------------------------------------
(* utils/utils.py *)

MaskWidth == 3

RECURSIVE Dec(_)
Dec(k) == IF k < 10 THEN <<DigitChar[k + 1]>>
          ELSE Dec(k \div 10) \o <<DigitChar[(k % 10) + 1]>>

RECURSIVE ZeroPad(_, _)
ZeroPad(s, w) == IF Len(s) >= w THEN s ELSE ZeroPad(<<"0">> \o s, w)

\* f"EQ{mask_count:03}"
get_next_mask(c) == <<"E", "Q">> \o ZeroPad(Dec(c), MaskWidth)

\* the number a mask token spells
RECURSIVE DecValue(_)
DecValue(s) ==
    IF s = <<>> THEN 0
    ELSE 10 * DecValue(SubSeq(s, 1, Len(s) - 1))
         + (CHOOSE d \in 0..9 : DigitChar[d + 1] = s[Len(s)])

MaskNumber(m) == DecValue(SubSeq(m, 3, Len(m)))

\* replace(text, re0, re1) == re0.sub(re1, text), for a literal pattern re0
\* and one of the module's (well-formed) templates re1
replace(txt, re0, re1) == re_sub(re0, re1, txt, FALSE).s

-----------------------------------------------------------------------------
(* utils/to_scrapbox.py: the syntax mapper *)

Node(k, v, n, a, d0, d1) ==
    [kind |-> k, verbatim |-> v, name |-> n, nargs |-> a, d0 |-> d0, d1 |-> d1]

macros_remove ==
    {"documentclass", "usepackage", "title", "author", "date", "maketitle",
     "section", "subsection", "subsubsection", "paragraph", "subparagraph",
     "label", "ref", "cite", "footnote"}

envs_remove == {}

macros_escape == {}

envs_escape ==
    { <<"e", "n", "u", "m", "e", "r", "a", "t", "e">>,
      <<"t", "a", "b", "l", "e">>,
      <<"t", "a", "b", "u", "l", "a", "r">> }

\* common_replace_patterns: (re.compile("\n"), " ")
common_replace(code) == replace(code, <<NL>>, <<" ">>)

\* math_replace_patterns: (re.compile(r"\\Big\{(.+?)\}"), r"\\Big\1").
\* BigClose is the position of the "}" the lazy group stops at (0: no match).
BigOpen == <<"\\", "B", "i", "g", "{">>

BigClose(code, p) ==
    LET cand == {q \in (p + 6)..Len(code) : code[q] = "}"}
    IN  IF ~MatchLit(code, p, BigOpen, FALSE) \/ cand = {} THEN 0
        ELSE LET q == CHOOSE q \in cand : \A r \in cand : q <= r
             IN  IF \E k \in (p + 5)..(q - 1) : code[k] = NL THEN 0 ELSE q

RECURSIVE math_replace_from(_, _)
math_replace_from(code, p) ==
    IF p > Len(code) THEN <<>>
    ELSE LET q == BigClose(code, p)
         IN  IF q # 0
             THEN <<"\\", "B", "i", "g">> \o SubSeq(code, p + 5, q - 1)
                      \o math_replace_from(code, q + 1)
             ELSE <<code[p]>> \o math_replace_from(code, p + 1)

math_replace(code) == math_replace_from(code, 1)

\* env_replace_patterns: (re.compile(r"\{split\}"), r"\{aligned\}")
env_replace(code) ==
    replace(code, <<"{", "s", "p", "l", "i", "t", "}">>,
            <<"\\", "{", "a", "l", "i", "g", "n", "e", "d", "\\", "}">>)

\* special_replace_patterns: (re.compile(r"(~+)"), "[$ \1]"); the template is
\* not a raw string, so its "\1" is the character \x01
RECURSIVE special_replace_from(_, _)
special_replace_from(code, p) ==
    IF p > Len(code) THEN <<>>
    ELSE IF code[p] = "~"
         THEN LET stop == {q \in p..Len(code) :
                              q = Len(code) \/ code[q + 1] # "~"}
                  e == CHOOSE q \in stop : \A r \in stop : q <= r
              IN  <<"[", "$", " ", SOH, "]">> \o special_replace_from(code, e + 1)
         ELSE <<code[p]>> \o special_replace_from(code, p + 1)

special_replace(code) == special_replace_from(code, 1)

\* code[len(delims[0]) : -len(delims[1])]
remove_delims(code, d0, d1) ==
    IF Len(d1) = 0 THEN <<>>
    ELSE SubSeq(code, Len(d0) + 1, Len(code) - Len(d1))

macro_vanishes_named(node) == node.name \in macros_remove

\* lines 105-108: the macro maps to "" and returns no mask pair
macro_vanishes(node) == node.name \in macros_remove \/ node.nargs = 0

\* line 134: "-" in node.specials_chars
is_hyphen(node) == Contains(node.verbatim, <<"-">>)

\* node2mask(node) with the module-level mask_count = count:
\* the tuple returned (pair = NoPair when the node is not masked), the counter
\* afterwards, and whether NotImplementedError was raised
node2mask(node, count) ==
    IF node.kind = "Chars"
    THEN [masked_expr |-> node.verbatim, pair |-> NoPair, count |-> count,
          raised |-> FALSE]
    ELSE
    LET mask == get_next_mask(count)
        code == common_replace(node.verbatim)
        masked(e) == [masked_expr |-> mask, pair |-> <<mask, e>>,
                      count |-> count + 1, raised |-> FALSE]
        plain(s)  == [masked_expr |-> s, pair |-> NoPair,
                      count |-> count + 1, raised |-> FALSE]
        tick(c)   == <<TICK>> \o c \o <<TICK>>
    IN  CASE node.kind = "Math" ->
               masked(<<"[", "$", " ">>
                      \o remove_delims(math_replace(code), node.d0, node.d1)
                      \o <<" ", "]">>)
          [] node.kind = "Macro" ->
               IF macro_vanishes(node) THEN plain(<<>>)
               ELSE IF \E m \in macros_escape : Contains(code, m)
                    THEN masked(tick(code))
                    ELSE masked(code)
          [] node.kind = "Environment" ->
               IF node.name \in envs_remove THEN plain(<<>>)
               ELSE IF \E e \in envs_escape : Contains(code, e)
                    THEN masked(tick(code))
                    ELSE masked(env_replace(code))
          [] node.kind = "Group" ->
               masked(remove_delims(code, node.d0, node.d1))
          [] node.kind = "Specials" ->
               IF is_hyphen(node) THEN plain(node.verbatim)
               ELSE masked(special_replace(code))
          [] OTHER ->
               [masked_expr |-> <<>>, pair |-> NoPair, count |-> count + 1,
                raised |-> TRUE]

\* node_to_expr(node), imported by main.py: the restore expression of a
\* node, i.e. the target-syntax string the syntax mapper computes for it
node_to_expr(node) ==
    LET r == node2mask(node, 0)
    IN  IF r.pair = NoPair THEN r.masked_expr ELSE r.pair[2]

-----------------------------------------------------------------------------
(* main.py: mask_codes and unmask_codes *)

mask_codes_iter_no_increment(node, s) ==
    IF node.kind = "Chars"
    THEN [s EXCEPT !.masked_text = s.masked_text \o node.verbatim]
    ELSE LET mask == get_next_mask(s.mask_count)
         IN  [masked_text |-> s.masked_text \o mask,
              mask_dict   |-> Append(s.mask_dict, <<mask, node>>),
              mask_count  |-> s.mask_count]

\* one iteration of the loop of mask_codes (lines 51-58)
mask_codes_iter(node, s) ==
    IF node.kind = "Chars"
    THEN [s EXCEPT !.masked_text = s.masked_text \o node.verbatim]
    ELSE LET mask == get_next_mask(s.mask_count)
         IN  [masked_text |-> s.masked_text \o mask,
              mask_dict   |-> Append(s.mask_dict, <<mask, node>>),
              mask_count  |-> s.mask_count + 1]

RECURSIVE mask_codes_loop(_, _, _)
mask_codes_loop(nl, k, s) ==
    IF k > Len(nl) THEN s ELSE mask_codes_loop(nl, k + 1, mask_codes_iter(nl[k], s))

\* mask_codes(nodelist): [masked_text, mask_dict, mask_count]
mask_codes(nl) ==
    mask_codes_loop(nl, 1, [masked_text |-> <<>>, mask_dict |-> <<>>, mask_count |-> 0])

escape_backslashes_none(expr) == expr

\* re.sub(r"\\", r"\\\\", expr)
escape_backslashes(expr) == re_sub(<<BS>>, <<BS, BS, BS, BS>>, expr, FALSE).s

unmask_case_sensitive == FALSE

\* flags=re.IGNORECASE
unmask_ignorecase == TRUE

\* one iteration of the loop of unmask_codes (lines 109-112):
\* [ok |-> FALSE] when re.sub raises
unmask_codes_iter(entry, txt) ==
    re_sub(entry[1], escape_backslashes(node_to_expr(entry[2])), txt,
           unmask_ignorecase)

RECURSIVE unmask_codes_loop(_, _, _)
unmask_codes_loop(txt, md, k) ==
    IF k > Len(md) THEN [ok |-> TRUE, s |-> txt]
    ELSE LET r == unmask_codes_iter(md[k], txt)
         IN  IF r.ok THEN unmask_codes_loop(r.s, md, k + 1) ELSE r

\* unmask_codes(translated_text, mask_dict)
unmask_codes(txt, md) == unmask_codes_loop(txt, md, 1)

-----------------------------------------------------------------------------
(* utils/to_scrapbox.py: ReferenceMasker *)

reference_mask == <<"#", "R", "E", "F", "#">>

\* r"\\section\*?\{References?\}" with re.IGNORECASE, tried at position p:
\* the number of characters up to the end of the match, or None
heading_match_end(txt, p) ==
    IF ~MatchLit(txt, p, <<"\\", "s", "e", "c", "t", "i", "o", "n">>, TRUE)
    THEN None
    ELSE LET a == p + 8
             b == IF a <= Len(txt) /\ txt[a] = "*" THEN a + 1 ELSE a
         IN  IF ~MatchLit(txt, b, <<"{", "R", "e", "f", "e", "r", "e", "n", "c", "e">>, TRUE)
             THEN None
             ELSE LET c == b + 10
                      d == IF c <= Len(txt) /\ Lower(txt[c]) = "s" THEN c + 1 ELSE c
                  IN  IF d <= Len(txt) /\ txt[d] = "}" THEN d ELSE None

\* _find_reference_section(text): <<start_pos, end_pos>> (0-based, as Python)
find_reference_section(txt) ==
    LET hits == {p \in 1..Len(txt) : heading_match_end(txt, p) # None}
    IN  IF hits = {} THEN <<None, None>>
        ELSE LET p == CHOOSE p \in hits : \A q \in hits : p <= q
                 start_pos == heading_match_end(txt, p)
                 nxt == {q \in (start_pos + 1)..Len(txt) :
                            MatchLit(txt, q, <<NL, "\\", "s", "e", "c", "t", "i", "o", "n">>, FALSE)}
             IN  IF nxt = {} THEN <<start_pos, Len(txt)>>
                 ELSE <<start_pos, (CHOOSE q \in nxt : \A r \in nxt : q <= r) - 1>>

\* text[a:b] of Python, where a or b may be None
Slice(txt, a, b) ==
    SubSeq(txt, (IF a = None THEN 0 ELSE a) + 1, IF b = None THEN Len(txt) ELSE b)

\* ReferenceMasker.mask(text): the text returned and self.ref_text
ReferenceMasker_mask(txt) ==
    LET se == find_reference_section(txt)
    IN  [masked_text |-> Slice(txt, None, se[1]) \o reference_mask \o Slice(txt, se[2], None),
         ref_text    |-> Slice(txt, se[1], se[2])]

\* ReferenceMasker.unmask(masked_text)
ReferenceMasker_unmask(txt, stored) == str_replace(txt, reference_mask, stored)


-----------------------------------------------------------------------------
(* Node lists the parser can return *)

T_a == Node("Chars", <<"a">>, "", 0, <<>>, <<>>)

T_eq == Node("Chars", <<"e", "q", "0", "0", "0">>, "", 0, <<>>, <<>>)

N_math == Node("Math", <<"$", "\\", "B", "i", "g", "{", "(", "}", "x", "$">>,
               "", 0, <<"$">>, <<"$">>)

N_cite == Node("Macro", <<"\\", "c", "i", "t", "e", "{", "f", "}">>,
               "cite", 1, <<>>, <<>>)

N_emph == Node("Macro", <<"\\", "e", "m", "p", "h", "{", "x", "\n", "y", "}">>,
               "emph", 1, <<>>, <<>>)

N_S == Node("Macro", <<"\\", "S">>, "S", 0, <<>>, <<>>)

N_split == Node("Environment",
                <<"\\", "b", "e", "g", "i", "n", "{", "s", "p", "l", "i", "t", "}", "x",
                  "\\", "e", "n", "d", "{", "s", "p", "l", "i", "t", "}">>,
                "split", 0, <<>>, <<>>)

N_table == Node("Environment",
                <<"\\", "b", "e", "g", "i", "n", "{", "t", "a", "b", "l", "e", "}", "x",
                  "\\", "e", "n", "d", "{", "t", "a", "b", "l", "e", "}">>,
                "table", 0, <<>>, <<>>)

N_group == Node("Group", <<"{", "E", "Q", "0", "0", "1", "}">>, "", 0, <<"{">>, <<"}">>)

N_hyphen == Node("Specials", <<"-", "-">>, "", 0, <<>>, <<>>)

N_tilde == Node("Specials", <<"~", "~">>, "", 0, <<>>, <<>>)

N_comment == Node("Comment", <<"%", "c">>, "", 0, <<>>, <<>>)

CoreNodes == {T_a, T_eq, N_cite, N_emph, N_S, N_group, N_hyphen}

SampleNodes == CoreNodes \cup {N_math, N_split, N_table, N_tilde, N_comment}

SeqsUpTo(S, n) == UNION {[1..k -> S] : k \in 0..n}

RECURSIVE Concat(_)
Concat(ss) == IF ss = <<>> THEN <<>> ELSE Head(ss) \o Concat(Tail(ss))

\* the node list mapped directly to target syntax: each Text node's
\* characters and each structural node's restore expression, in node order
RECURSIVE DirectMap(_)
DirectMap(nl) ==
    IF nl = <<>> THEN <<>>
    ELSE (IF Head(nl).kind = "Chars" THEN Head(nl).verbatim ELSE node_to_expr(Head(nl)))
         \o DirectMap(Tail(nl))

-----------------------------------------------------------------------------
(* Spec: the maskers and the unmaskers applied to a node list.  First       *)
(* node2mask is called on every node in turn (its module-level counter      *)
(* starts at 0, line 68), then mask_codes runs, then its result is unmasked *)
(* either at once or after a pass through ReferenceMasker.                  *)

NoArgs == [stdout |-> FALSE, no_copy |-> FALSE]

InitCommon ==
    /\ idx = 1
    /\ masked_text = <<>>
    /\ mask_dict = <<>>
    /\ mask_count = 0
    /\ g_mask_count = 0
    /\ n2m_log = <<>>
    /\ ref_text = <<>>
    /\ text = <<>>
    /\ input = <<>>
    /\ via = "none"
    /\ output = <<>>
    /\ parts = <<>>
    /\ status = 0
    /\ args = NoArgs
    /\ files = <<>>
    /\ console = <<>>
    /\ clipboard = <<>>
    /\ requests = <<>>

Init ==
    /\ pc = "node2mask"
    /\ nodelist \in SeqsUpTo(CoreNodes, MaxNodes) \cup SeqsUpTo(SampleNodes, MaxNodes - 1)
    /\ InitCommon

mainVars == <<output, parts, status, args, files, console, clipboard, requests>>

\* one call node2mask(nodelist[idx])
Node2MaskCall ==
    /\ pc = "node2mask"
    /\ idx <= Len(nodelist)
    /\ LET r == node2mask(nodelist[idx], g_mask_count)
       IN  /\ g_mask_count' = r.count
           /\ IF r.raised
              THEN /\ pc' = "raised_node2mask"
                   /\ UNCHANGED <<idx, n2m_log>>
              ELSE /\ n2m_log' = Append(n2m_log, [node |-> nodelist[idx],
                                                  before |-> g_mask_count,
                                                  after |-> r.count,
                                                  masked_expr |-> r.masked_expr,
                                                  pair |-> r.pair])
                   /\ idx' = idx + 1
                   /\ pc' = pc
    /\ UNCHANGED <<nodelist, masked_text, mask_dict, mask_count, ref_text, text,
                   input, via, mainVars>>

Node2MaskDone ==
    /\ pc = "node2mask"
    /\ idx > Len(nodelist)
    /\ pc' = "mask_codes"
    /\ idx' = 1
    /\ UNCHANGED <<nodelist, masked_text, mask_dict, mask_count, g_mask_count,
                   n2m_log, ref_text, text, input, via, mainVars>>

\* one iteration of the loop of mask_codes
MaskCodesIter ==
    /\ pc = "mask_codes"
    /\ idx <= Len(nodelist)
    /\ LET s == mask_codes_iter(nodelist[idx],
                    [masked_text |-> masked_text, mask_dict |-> mask_dict,
                     mask_count |-> mask_count])
       IN  /\ masked_text' = s.masked_text
           /\ mask_dict' = s.mask_dict
           /\ mask_count' = s.mask_count
    /\ idx' = idx + 1
    /\ UNCHANGED <<pc, nodelist, g_mask_count, n2m_log, ref_text, text, input,
                   via, mainVars>>

MaskCodesReturn ==
    /\ pc = "mask_codes"
    /\ idx > Len(nodelist)
    /\ pc' = "masked"
    /\ UNCHANGED <<nodelist, idx, masked_text, mask_dict, mask_count,
                   g_mask_count, n2m_log, ref_text, text, input, via, mainVars>>

\* unmask_codes is called on the masked text as it is
UnmaskAtOnce ==
    /\ pc = "masked"
    /\ via' = "direct"
    /\ text' = masked_text
    /\ input' = masked_text
    /\ pc' = "unmask_codes"
    /\ idx' = 1
    /\ UNCHANGED <<nodelist, masked_text, mask_dict, mask_count, g_mask_count,
                   n2m_log, ref_text, mainVars>>

\* ReferenceMasker().mask(masked_text)
RefMask ==
    /\ pc = "masked"
    /\ via' = "ref"
    /\ LET r == ReferenceMasker_mask(masked_text)
       IN  /\ text' = r.masked_text
           /\ ref_text' = r.ref_text
    /\ input' = masked_text
    /\ pc' = "ref_masked"
    /\ UNCHANGED <<nodelist, idx, masked_text, mask_dict, mask_count,
                   g_mask_count, n2m_log, mainVars>>

\* ReferenceMasker.unmask(text); the translation in between left the text as
\* it was
RefUnmask ==
    /\ pc = "ref_masked"
    /\ text' = ReferenceMasker_unmask(text, ref_text)
    /\ pc' = "unmask_codes"
    /\ idx' = 1
    /\ UNCHANGED <<nodelist, masked_text, mask_dict, mask_count, g_mask_count,
                   n2m_log, ref_text, input, via, mainVars>>

\* one iteration of the loop of unmask_codes
UnmaskCodesIter ==
    /\ pc = "unmask_codes"
    /\ idx <= Len(mask_dict)
    /\ LET r == unmask_codes_iter(mask_dict[idx], text)
       IN  IF r.ok
           THEN /\ text' = r.s
                /\ idx' = idx + 1
                /\ pc' = pc
           ELSE /\ pc' = "raised_unmask"
                /\ UNCHANGED <<text, idx>>
    /\ UNCHANGED <<nodelist, masked_text, mask_dict, mask_count, g_mask_count,
                   n2m_log, ref_text, input, via, mainVars>>

UnmaskCodesReturn ==
    /\ pc = "unmask_codes"
    /\ idx > Len(mask_dict)
    /\ pc' = "done"
    /\ UNCHANGED <<nodelist, idx, masked_text, mask_dict, mask_count,
                   g_mask_count, n2m_log, ref_text, text, input, via, mainVars>>

Next ==
    \/ Node2MaskCall
    \/ Node2MaskDone
    \/ MaskCodesIter
    \/ MaskCodesReturn
    \/ UnmaskAtOnce
    \/ RefMask
    \/ RefUnmask
    \/ UnmaskCodesIter
    \/ UnmaskCodesReturn

Spec == Init /\ [][Next]_vars


-----------------------------------------------------------------------------
(* Claims checked under Spec *)

\* the tuples of node2mask that placed a mask token into the masked text
Placed == SelectSeq(n2m_log, LAMBDA e : e.pair # NoPair)

\* the nodes before position j that are not Text nodes
NonTextBefore(j) == Cardinality({m \in 1..(j - 1) : nodelist[m].kind # "Chars"})

\* C6 as stated: the k-th token a masker places into the masked text
\* (counting from 0) is get_next_mask(k), for mask_codes and for node2mask.
C6_KthTokenIsKthMask ==
    /\ \A k \in 1..Len(mask_dict) : mask_dict[k][1] = get_next_mask(k - 1)
    /\ \A k \in 1..Len(Placed) : Placed[k].masked_expr = get_next_mask(k - 1)

\* C6 amended: in one pass the tokens a masker places are pairwise distinct
\* and strictly increasing in number; mask_codes places get_next_mask(k) as
\* its k-th token, starting from EQ000 at every call; node2mask gives a node
\* the token numbered by the count of non-text nodes before it, so that nodes
\* it does not mask (removed or argument-less macros, hyphens) leave gaps.
C6_TokensDistinctIncreasing ==
    /\ \A k \in 1..Len(mask_dict) : mask_dict[k][1] = get_next_mask(k - 1)
    /\ mask_count = Len(mask_dict)
    /\ \A j, k \in 1..Len(mask_dict) :
           j < k => /\ mask_dict[j][1] # mask_dict[k][1]
                    /\ MaskNumber(mask_dict[j][1]) < MaskNumber(mask_dict[k][1])
    /\ \A j \in 1..Len(n2m_log) :
           n2m_log[j].pair # NoPair =>
               /\ n2m_log[j].masked_expr = get_next_mask(NonTextBefore(j))
               /\ n2m_log[j].pair[1] = n2m_log[j].masked_expr
    /\ \A j, k \in 1..Len(Placed) :
           j < k => /\ Placed[j].masked_expr # Placed[k].masked_expr
                    /\ MaskNumber(Placed[j].masked_expr) < MaskNumber(Placed[k].masked_expr)

\* both maskers have placed two tokens, node2mask with a gap before one
C6_Witness ==
    /\ pc = "done"
    /\ Len(mask_dict) >= 2
    /\ Len(Placed) >= 2
    /\ \E k \in 1..Len(Placed) : Placed[k].masked_expr # get_next_mask(k - 1)

IsHyphen(node) == node.kind = "Specials" /\ \E k \in 1..Len(node.verbatim) : node.verbatim[k] = "-"

\* C7: a literal-hyphen Specials node passes through the masker as plain
\* text and consumes no mask slot: no placeholder, no mask-table entry, and
\* the mask counter is the same after it as before.
C7_HyphenConsumesNoSlot ==
    /\ \A j \in 1..Len(n2m_log) :
           IsHyphen(n2m_log[j].node) =>
               /\ n2m_log[j].masked_expr = n2m_log[j].node.verbatim
               /\ n2m_log[j].pair = NoPair
               /\ n2m_log[j].after = n2m_log[j].before
    /\ \A k \in 1..Len(mask_dict) : ~IsHyphen(mask_dict[k][2])

NewlinesToSpaces(v) == [k \in 1..Len(v) |-> IF v[k] = NL THEN " " ELSE v[k]]

\* C8 as stated: a macro of the removal list maps to the empty string with
\* no placeholder; any other macro (no escape-list entry matches, the list is
\* empty) keeps its verbatim text, newlines collapsed, as its restore
\* expression, whatever its number of arguments.
C8_MacroRule ==
    \A j \in 1..Len(n2m_log) :
        LET e == n2m_log[j] IN
        e.node.kind = "Macro" =>
            IF e.node.name \in macros_remove
            THEN e.masked_expr = <<>> /\ e.pair = NoPair /\ node_to_expr(e.node) = <<>>
            ELSE e.pair # NoPair /\ e.pair[2] = NewlinesToSpaces(e.node.verbatim)

\* C8 amended: a macro of the removal list, and also any macro without
\* arguments, maps to the empty string with no placeholder; a macro outside
\* the removal list with at least one argument keeps its verbatim text,
\* newlines collapsed, as its restore expression.
C8_MacroRuleWithArgs ==
    \A j \in 1..Len(n2m_log) :
        LET e == n2m_log[j] IN
        e.node.kind = "Macro" =>
            IF e.node.name \in macros_remove \/ e.node.nargs = 0
            THEN e.masked_expr = <<>> /\ e.pair = NoPair /\ node_to_expr(e.node) = <<>>
            ELSE /\ e.pair # NoPair
                 /\ e.masked_expr = e.pair[1]
                 /\ e.pair[2] = NewlinesToSpaces(e.node.verbatim)
                 /\ node_to_expr(e.node) = e.pair[2]

\* node2mask has mapped a removed macro, an argument-less macro outside the
\* removal list and a macro with an argument
C8_Witness ==
    /\ \E j \in 1..Len(n2m_log) :
           n2m_log[j].node.kind = "Macro" /\ n2m_log[j].node.name \notin macros_remove
           /\ n2m_log[j].node.nargs = 0
    /\ \E j \in 1..Len(n2m_log) :
           n2m_log[j].node.kind = "Macro" /\ n2m_log[j].node.name \in macros_remove
           /\ n2m_log[j].node.nargs > 0

Tokens == {mask_dict[k][1] : k \in 1..Len(mask_dict)}

\* the directly mapped text holds no mask token of the table, in any case
NoCollision == \A m \in Tokens : ~ContainsCI(DirectMap(nodelist), m)

\* C2 as stated: for every node list, mask_codes followed at once by
\* unmask_codes yields the direct mapping of the node list.
C2_RoundTrip ==
    /\ pc # "raised_unmask"
    /\ (pc = "done" /\ via = "direct") => text = DirectMap(nodelist)

\* C2 amended: the same for every node list whose direct mapping contains no
\* mask token of the table (in any letter case).
C2_RoundTripNoCollision ==
    NoCollision =>
        /\ pc # "raised_unmask"
        /\ (pc = "done" /\ via = "direct") => text = DirectMap(nodelist)

\* a round trip without collision has restored two tokens, one of them to an
\* expression with a backslash, around a Text node
C2_Witness ==
    /\ pc = "done" /\ via = "direct" /\ NoCollision
    /\ Len(mask_dict) >= 2
    /\ \E k \in 1..Len(nodelist) : nodelist[k].kind = "Chars"
    /\ \E k \in 1..Len(text) : text[k] = BS

\* C1: every placeholder the masker or ReferenceMasker.mask inserts is a key
\* of the mask table or the reference placeholder, is there to be restored
\* exactly once, and after ReferenceMasker.unmask and unmask_codes the output
\* holds no placeholder.
C1_PlaceholderInvariant ==
    /\ (pc = "ref_masked") =>
           CountFrom(text, reference_mask, 1, FALSE) = 1
    /\ (pc = "unmask_codes" /\ via = "ref" /\ idx = 1) =>
           \A m \in Tokens : CountFrom(text, m, 1, TRUE) = 1
    /\ (pc = "done" /\ via = "ref") =>
           /\ ~Contains(text, reference_mask)
           /\ \A m \in Tokens : ~ContainsCI(text, m)

-----------------------------------------------------------------------------
(* SpecUnmask: unmask_codes alone, on a translated text the translation     *)
(* service may have returned (tokens in another case, repeated, unknown     *)
(* ones) and a mask table mask_codes built.                                 *)

TableNodes == {N_emph, N_cite, N_group, N_table}

Pieces == { <<"E", "Q", "0", "0", "0">>, <<"e", "q", "0", "0", "0">>,
            <<"e", "Q", "0", "0", "1">>, <<"E", "Q", "7", "7", "7">>, <<"x">> }

InitUnmask ==
    /\ pc = "unmask_codes"
    /\ nodelist \in SeqsUpTo(TableNodes, MaxEntries)
    /\ idx = 1
    /\ masked_text = mask_codes(nodelist).masked_text
    /\ mask_dict = mask_codes(nodelist).mask_dict
    /\ mask_count = mask_codes(nodelist).mask_count
    /\ g_mask_count = 0
    /\ n2m_log = <<>>
    /\ ref_text = <<>>
    /\ \E ps \in SeqsUpTo(Pieces, MaxPieces) : input = Concat(ps)
    /\ text = input
    /\ via = "translated"
    /\ output = <<>>
    /\ parts = <<>>
    /\ status = 0
    /\ args = NoArgs
    /\ files = <<>>
    /\ console = <<>>
    /\ clipboard = <<>>
    /\ requests = <<>>

NextUnmask ==
    \/ UnmaskCodesIter
    \/ UnmaskCodesReturn

SpecUnmask == InitUnmask /\ [][NextUnmask]_vars

SameIgnoringCase(a, b) ==
    /\ Len(a) = Len(b)
    /\ \A k \in 1..Len(a) : Lower(a[k]) = Lower(b[k])

\* every occurrence of tok in txt, in any letter case, replaced by the
\* characters of e as they are
RECURSIVE LiteralReplaceAll(_, _, _)
LiteralReplaceAll(txt, tok, e) ==
    IF Len(txt) < Len(tok) THEN txt
    ELSE IF SameIgnoringCase(SubSeq(txt, 1, Len(tok)), tok)
         THEN e \o LiteralReplaceAll(SubSeq(txt, Len(tok) + 1, Len(txt)), tok, e)
         ELSE <<Head(txt)>> \o LiteralReplaceAll(Tail(txt), tok, e)

\* the first n tokens of the table restored one after the other
RECURSIVE RestoredInTurn(_, _, _)
RestoredInTurn(txt, md, n) ==
    IF n = 0 THEN txt
    ELSE LiteralReplaceAll(RestoredInTurn(txt, md, n - 1), md[n][1], node_to_expr(md[n][2]))

\* the occurrences of the table's tokens in txt itself replaced, each by its
\* token's restore expression, everything else kept
RECURSIVE RestoredAtOnce(_, _)
RestoredAtOnce(txt, md) ==
    IF txt = <<>> THEN <<>>
    ELSE LET hits == {k \in 1..Len(md) :
                         /\ Len(txt) >= Len(md[k][1])
                         /\ SameIgnoringCase(SubSeq(txt, 1, Len(md[k][1])), md[k][1])}
         IN  IF hits = {} THEN <<Head(txt)>> \o RestoredAtOnce(Tail(txt), md)
             ELSE LET k == CHOOSE k \in hits : TRUE
                  IN  node_to_expr(md[k][2])
                      \o RestoredAtOnce(SubSeq(txt, Len(md[k][1]) + 1, Len(txt)), md)

\* C10 as stated: unmask_codes replaces every occurrence, in any case, of
\* every table token in the translated text by that token's restore
\* expression inserted literally, leaves all other text unchanged and raises
\* no error.
C10_RestoresTranslatedText ==
    /\ pc # "raised_unmask"
    /\ pc = "done" => text = RestoredAtOnce(input, mask_dict)

\* C10 amended: unmask_codes takes the table's tokens in insertion order and,
\* for each in turn, replaces every occurrence of it, in any case, in the
\* text as the earlier tokens left it (restore expressions already inserted
\* included) by its restore expression inserted literally; what is no
\* occurrence of the token in turn is kept, and no error is raised.
C10_RestoresInTurn ==
    /\ pc # "raised_unmask"
    /\ pc \in {"unmask_codes", "done"} =>
           text = RestoredInTurn(input, mask_dict, idx - 1)

\* a token that came back twice, once in lower case, beside an unknown token,
\* has been restored to an expression with a backslash
C10_Witness ==
    /\ pc = "done"
    /\ Len(mask_dict) >= 1
    /\ \E k \in 1..Len(mask_dict) : BS \in {node_to_expr(mask_dict[k][2])[j] :
                                             j \in 1..Len(node_to_expr(mask_dict[k][2]))}
    /\ input = <<"e", "q", "0", "0", "0", "E", "Q", "0", "0", "0">>
    /\ text # input
    /\ \E k \in 1..Len(text) : text[k] = BS

-----------------------------------------------------------------------------
(* SpecRef: ReferenceMasker alone, on a text built as                       *)
(*   pre . heading . body . rest                                            *)
(* mask, then a translation that keeps the placeholder, then unmask.        *)

H_latex == <<"\\", "s", "e", "c", "t", "i", "o", "n", "{", "R", "e", "f", "e", "r",
             "e", "n", "c", "e", "s", "}">>

H_star == <<"\\", "S", "E", "C", "T", "I", "O", "N", "*", "{", "r", "e", "f", "e",
            "r", "e", "n", "c", "e", "}">>

H_markdown == <<"#", "#", " ", "R", "e", "f", "e", "r", "e", "n", "c", "e", "s">>

B_smith == <<"\n", "S", "m", "i", "t", "h", ",", " ", "2", "0", "2", "0", ".">>

R_latex == <<"\n", "\\", "s", "e", "c", "t", "i", "o", "n", "{", "A", "}">>

R_markdown == <<"\n", "#", "#", " ", "A", "p", "p", "e", "n", "d", "i", "x">>

RefParts ==
    [pre     : {<<>>, <<"x", "\n">>, reference_mask},
     heading : {<<>>, H_latex, H_star, H_markdown},
     body    : {<<>>, B_smith, <<"\n", "a", "\n", "b">>},
     rest    : {<<>>, R_latex, R_markdown}]

InitRef ==
    /\ pc = "rm_start"
    /\ parts \in RefParts
    /\ input = parts.pre \o parts.heading \o parts.body \o parts.rest
    /\ text = input
    /\ nodelist = <<>>
    /\ idx = 1
    /\ masked_text = <<>>
    /\ mask_dict = <<>>
    /\ mask_count = 0
    /\ g_mask_count = 0
    /\ n2m_log = <<>>
    /\ ref_text = <<>>
    /\ via = "none"
    /\ output = <<>>
    /\ status = 0
    /\ args = NoArgs
    /\ files = <<>>
    /\ console = <<>>
    /\ clipboard = <<>>
    /\ requests = <<>>

refFrame == <<nodelist, idx, masked_text, mask_dict, mask_count, g_mask_count,
              n2m_log, output, input, parts, status, args, files, console,
              clipboard, requests>>

\* ReferenceMasker().mask(text)
RM_Mask ==
    /\ pc = "rm_start"
    /\ LET r == ReferenceMasker_mask(text)
       IN  /\ text' = r.masked_text
           /\ ref_text' = r.ref_text
    /\ pc' = "rm_masked"
    /\ UNCHANGED <<via, refFrame>>

\* the translation: the text comes back as it went, or with the text around
\* the placeholder changed
RM_Translate ==
    /\ pc = "rm_masked"
    /\ \/ via' = "same" /\ text' = text
       \/ via' = "wrapped" /\ text' = <<"T">> \o text \o <<"T">>
    /\ pc' = "rm_translated"
    /\ UNCHANGED <<ref_text, refFrame>>

\* ReferenceMasker.unmask(text)
RM_Unmask ==
    /\ pc = "rm_translated"
    /\ text' = ReferenceMasker_unmask(text, ref_text)
    /\ pc' = "rm_done"
    /\ UNCHANGED <<ref_text, via, refFrame>>

NextRef ==
    \/ RM_Mask
    \/ RM_Translate
    \/ RM_Unmask

SpecRef == InitRef /\ [][NextRef]_vars

Wrapped(t) == IF via = "wrapped" THEN <<"T">> \o t \o <<"T">> ELSE t

\* C3: on a text without a References heading ReferenceMasker.mask returns
\* the text unchanged and stores the empty string.
C3_NoHeadingUnchanged ==
    (pc = "rm_masked" /\ parts.heading = <<>>) =>
        /\ text = input
        /\ ref_text = <<>>

\* C4: on a text with a References heading ("\section{References}" or the
\* spec's "## References"), a body B and then a following heading or the end,
\* mask replaces exactly B by the one placeholder and stores B, and unmask
\* puts B back, so that the text comes out as it went in.
C4_BodyIsolatedAndRestored ==
    parts.heading # <<>> =>
        /\ pc = "rm_masked" =>
               /\ text = parts.pre \o parts.heading \o reference_mask \o parts.rest
               /\ ref_text = parts.body
        /\ pc = "rm_done" => text = Wrapped(input)

\* What the code does for the headings it recognises: on a text with a
\* "\section{References}" or "\section*{Reference}" heading (any case), no
\* "#REF#" of its own before it, and "\n\section" or the end after the body,
\* exactly the body is replaced, stored and put back.
Ref_LatexHeadingIsolated ==
    (parts.heading \in {H_latex, H_star} /\ parts.pre # reference_mask
        /\ parts.rest # R_markdown) =>
        /\ pc = "rm_masked" =>
               /\ text = parts.pre \o parts.heading \o reference_mask \o parts.rest
               /\ ref_text = parts.body
        /\ pc = "rm_done" => text = Wrapped(input)

-----------------------------------------------------------------------------
(* main.py: main().  utils.to_scrapbox as main.py imports it provides       *)
(* mask_reference, unmask_reference and replace_post_translation; they are  *)
(* taken from sections 4.4 and 4.5 of the specification, the search for the *)
(* heading from _find_reference_section.                                    *)

\* mask_reference(text): (masked_text, ref_text)
mask_reference(txt) ==
    LET se == find_reference_section(txt)
    IN  IF se[1] = None
        THEN [masked_text |-> txt, ref_text |-> <<>>]
        ELSE [masked_text |-> SubSeq(txt, 1, se[1]) \o reference_mask
                                  \o SubSeq(txt, se[2] + 1, Len(txt)),
              ref_text    |-> SubSeq(txt, se[1] + 1, se[2])]

\* unmask_reference(text, ref_text)
unmask_reference(txt, stored) == str_replace(txt, reference_mask, stored)

\* the heading rewrite of replace_post_translation: a line that starts with
\* d = 1..3 "#" and a space becomes "[" 4-d "*" " " <rest of the line> "]".
\* (Its rewrites of citation and bold spans are not modelled: the
\* specification does not give their target syntax.)
LineEnd(txt, p) ==
    LET nls == {q \in p..Len(txt) : txt[q] = NL}
    IN  IF nls = {} THEN Len(txt) + 1 ELSE CHOOSE q \in nls : \A r \in nls : q <= r

HeadingDepth(txt, p, e) ==
    LET ds == {d \in 1..3 : /\ p + d < e
                            /\ \A k \in 0..(d - 1) : txt[p + k] = "#"
                            /\ txt[p + d] = " "}
    IN  IF ds = {} THEN 0 ELSE CHOOSE d \in ds : TRUE

RECURSIVE rewrite_lines(_, _)
rewrite_lines(txt, p) ==
    IF p > Len(txt) THEN <<>>
    ELSE LET e == LineEnd(txt, p)
             d == HeadingDepth(txt, p, e)
             line == IF d = 0 THEN SubSeq(txt, p, e - 1)
                     ELSE <<"[">> \o [k \in 1..(4 - d) |-> "*"] \o <<" ">>
                              \o SubSeq(txt, p + d + 1, e - 1) \o <<"]">>
         IN  IF e > Len(txt) THEN line
             ELSE line \o <<NL>> \o rewrite_lines(txt, e + 1)

replace_post_translation(txt) == rewrite_lines(txt, 1)

translation_failed_never(st) == FALSE

\* translate_text, line 89: response.status_code != 200
translation_failed(st) == st # 200

StatusOK == 200

\* statuses of a refused call (authorization failed, quota exceeded)
FailureStatuses == {403, 456}

\* the text of a successful response: the payload as it is, or in lower case
\* (the service translates; it may change the case of what it does not)
LowerText(t) == [k \in 1..Len(t) |-> Lower(t[k])]

Translations(t) == {t, LowerText(t)}

N_secref == Node("Macro", H_latex, "section", 3, <<>>, <<>>)

T_bib == Node("Chars", <<"S", "m", "i", "t", "h", ".">>, "", 0, <<>>, <<>>)

T_head == Node("Chars", <<"#", " ", "H", "\n">>, "", 0, <<>>, <<>>)

MainNodes == {N_secref, T_bib, T_head, N_emph}

InitMain ==
    /\ pc = "main_mask"
    /\ nodelist \in SeqsUpTo(MainNodes, MaxNodes)
    /\ args \in [stdout : BOOLEAN, no_copy : BOOLEAN]
    /\ idx = 1
    /\ masked_text = <<>>
    /\ mask_dict = <<>>
    /\ mask_count = 0
    /\ g_mask_count = 0
    /\ n2m_log = <<>>
    /\ ref_text = <<>>
    /\ text = <<>>
    /\ output = <<>>
    /\ input = <<>>
    /\ via = "none"
    /\ parts = <<>>
    /\ status = 0
    /\ files = <<>>
    /\ console = <<>>
    /\ clipboard = <<>>
    /\ requests = <<>>

maskFrame == <<nodelist, idx, g_mask_count, n2m_log, input, via, parts, args>>

Dump(name, content) == Append(files, [name |-> name, content |-> content])

\* lines 139-142: mask_codes, then mask_reference
M_Mask ==
    /\ pc = "main_mask"
    /\ LET r == mask_codes(nodelist)
           m == mask_reference(r.masked_text)
       IN  /\ masked_text' = m.masked_text
           /\ ref_text' = m.ref_text
           /\ mask_dict' = r.mask_dict
           /\ mask_count' = r.mask_count
    /\ pc' = "main_dump_mask"
    /\ UNCHANGED <<maskFrame, text, output, status, files, console, clipboard, requests>>

\* lines 144-145
M_DumpMask ==
    /\ pc = "main_dump_mask"
    /\ files' = Dump(".mask.log", masked_text)
    /\ pc' = "main_translate"
    /\ UNCHANGED <<maskFrame, masked_text, mask_dict, mask_count, ref_text, text,
                   output, status, console, clipboard, requests>>

\* lines 148-150: translate_text; a status other than 200 prints the
\* diagnostic and exits
M_Translate ==
    /\ pc = "main_translate"
    /\ requests' = Append(requests, masked_text)
    /\ \E st \in {StatusOK} \cup FailureStatuses :
          /\ status' = st
          /\ IF translation_failed(st)
             THEN /\ console' = console \o <<[kind |-> "response", content |-> <<>>],
                                            [kind |-> "error", content |-> <<>>]>>
                  /\ pc' = "main_exit1"
                  /\ text' = text
             ELSE /\ text' \in Translations(masked_text)
                  /\ pc' = "main_dump_trans"
                  /\ console' = console
    /\ UNCHANGED <<maskFrame, masked_text, mask_dict, mask_count, ref_text, output,
                   files, clipboard>>

\* lines 151-152
M_DumpTrans ==
    /\ pc = "main_dump_trans"
    /\ files' = Dump(".trans.log", text)
    /\ pc' = "main_post"
    /\ UNCHANGED <<maskFrame, masked_text, mask_dict, mask_count, ref_text, text,
                   output, status, console, clipboard, requests>>

\* lines 155-156
M_Post ==
    /\ pc = "main_post"
    /\ text' = replace_post_translation(unmask_reference(text, ref_text))
    /\ pc' = "main_dump_post"
    /\ UNCHANGED <<maskFrame, masked_text, mask_dict, mask_count, ref_text, output,
                   status, files, console, clipboard, requests>>

\* lines 157-158
M_DumpPost ==
    /\ pc = "main_dump_post"
    /\ files' = Dump(".post.log", text)
    /\ pc' = "main_unmask"
    /\ UNCHANGED <<maskFrame, masked_text, mask_dict, mask_count, ref_text, text,
                   output, status, console, clipboard, requests>>

\* line 160
M_Unmask ==
    /\ pc = "main_unmask"
    /\ LET r == unmask_codes(text, mask_dict)
       IN  IF r.ok THEN output' = r.s /\ pc' = "main_dump_out"
           ELSE output' = output /\ pc' = "main_raised"
    /\ UNCHANGED <<maskFrame, masked_text, mask_dict, mask_count, ref_text, text,
                   status, files, console, clipboard, requests>>

\* lines 161-162
M_DumpOut ==
    /\ pc = "main_dump_out"
    /\ files' = Dump(".out.log", output)
    /\ pc' = "main_print"
    /\ UNCHANGED <<maskFrame, masked_text, mask_dict, mask_count, ref_text, text,
                   output, status, console, clipboard, requests>>

\* lines 164-165
M_Print ==
    /\ pc = "main_print"
    /\ console' = IF args.stdout
                  THEN Append(console, [kind |-> "output", content |-> output])
                  ELSE console
    /\ pc' = "main_copy"
    /\ UNCHANGED <<maskFrame, masked_text, mask_dict, mask_count, ref_text, text,
                   output, status, files, clipboard, requests>>

\* lines 167-171: clip.exe is run with check=True, so its failure raises
M_Copy ==
    /\ pc = "main_copy"
    /\ IF args.no_copy
       THEN pc' = "main_done" /\ UNCHANGED <<clipboard, console>>
       ELSE \/ /\ clipboard' = Append(clipboard, output)
               /\ console' = Append(console, [kind |-> "copied", content |-> <<>>])
               /\ pc' = "main_done"
            \/ /\ pc' = "main_raised"
               /\ UNCHANGED <<clipboard, console>>
    /\ UNCHANGED <<maskFrame, masked_text, mask_dict, mask_count, ref_text, text,
                   output, status, files, requests>>

NextMain ==
    \/ M_Mask
    \/ M_DumpMask
    \/ M_Translate
    \/ M_DumpTrans
    \/ M_Post
    \/ M_DumpPost
    \/ M_Unmask
    \/ M_DumpOut
    \/ M_Print
    \/ M_Copy

SpecMain == InitMain /\ [][NextMain]_vars

\* the document has a References section: a "\section{References}" heading
\* node followed by a Text node, its body
RefSectionAt(k) ==
    /\ k < Len(nodelist)
    /\ nodelist[k].kind = "Macro"
    /\ heading_match_end(nodelist[k].verbatim, 1) = Len(nodelist[k].verbatim)
    /\ nodelist[k + 1].kind = "Chars"

\* C5: in every run on a document with a References section the text handed
\* to the translation call has the reference placeholder in place of the
\* section body, and no part of the body.
C5_BibliographyNotSent ==
    \A n \in 1..Len(requests) :
        \A k \in 1..Len(nodelist) :
            RefSectionAt(k) =>
                /\ Contains(requests[n], reference_mask)
                /\ ~Contains(requests[n], nodelist[k + 1].verbatim)

DumpOrder == <<".mask.log", ".trans.log", ".post.log", ".out.log">>

DumpsNeeded ==
    CASE pc \in {"main_mask", "main_dump_mask"} -> 0
      [] pc \in {"main_translate", "main_exit1", "main_dump_trans"} -> 1
      [] pc \in {"main_post", "main_dump_post"} -> 2
      [] pc \in {"main_unmask", "main_dump_out", "main_raised"} -> 3
      [] OTHER -> 4

\* C9: when the translation call returns a status other than 200 the run
\* stops there: .mask.log is on disk, the only dump, nothing was printed as
\* converted output, nothing was copied, and the call was made once.  In
\* every run the dumps are written in the order mask, trans, post, out, each
\* before the next stage starts.
C9_AbortOnTranslationFailure ==
    /\ (status # 0 /\ status # StatusOK) =>
           /\ pc = "main_exit1"
           /\ Len(files) = 1 /\ files[1].name = ".mask.log"
           /\ files[1].content = requests[1]
           /\ \A k \in 1..Len(console) : console[k].kind \notin {"output", "copied"}
           /\ clipboard = <<>>
    /\ Len(requests) <= 1
    /\ Len(files) <= 4
    /\ \A k \in 1..Len(files) : files[k].name = DumpOrder[k]
    /\ Len(files) >= DumpsNeeded
    /\ requests # <<>> => Len(files) >= 1
    /\ (clipboard # <<>> \/ \E k \in 1..Len(console) : console[k].kind = "output")
           => Len(files) = 4

\* a run asked to print and to copy was stopped by a failed translation call
\* after it had dumped a masked text with a token in it
C9_Witness ==
    /\ pc = "main_exit1"
    /\ args.stdout /\ ~args.no_copy
    /\ mask_dict # <<>>
    /\ Len(files) = 1
    /\ Contains(files[1].content, mask_dict[1][1])


=============================================================================
